---- MODULE Spec2Model ----
(***************************************************************************)
(* State-machine model of four Click elements:                             *)
(*   LocFromFile  (elements/grid/locfromfile.cc)                           *)
(*   RIPSend      (elements/ip/ripsend.cc)                                 *)
(*   RatedUnqueue (elements/standard/ratedunqueue.cc)                      *)
(*   SendPattern  (elements/radio/sendpattern.cc)                          *)
(* Each element has its own specification over the shared variables; the   *)
(* variables of the other elements keep their constructed values.          *)
(* Times are integers in milliseconds; trace values (doubles in the code)  *)
(* are integers.                                                           *)
(***************************************************************************)
EXTENDS Integers, Sequences, FiniteSets, TLC

VARIABLES
  \* ---- LocFromFile
  _deltas,        \* Vector<delta>: the trace read by configure
  _next,          \* index (0-based) of the current trace entry
  _t0,            \* base time of the current leg (GridLocationInfo field)
  loc_phase,      \* "constructed" | "configured"
  loc_res,        \* configure's return value
  nlat, nlon, nt, \* out-parameters of the last choose_new_leg call
  loc_t0_call,    \* _t0 as it was when the last call started
  loc_calls,      \* number of completed choose_new_leg calls
  loc_in,         \* what configure was given: [argsOk, opens, file]
  \* ---- clock shared by the timer and the task scheduler
  now,            \* current time, ms
  ticks,          \* number of clock advances so far
  \* ---- RIPSend
  _timer,         \* [state: unscheduled | pending | fired, deadline]
  rip_phase,      \* "constructed" | "initialized"
  rip_init,       \* the time of initialize
  rip_fires,      \* the times at which the timer fired
  rip_out,        \* packets received by the element wired to output 0
  rip_run,        \* events of the last run_scheduled, in order
  rip_arms,       \* [at, deadline] of every arming of the timer
  rip_crashed,    \* the process died in run_scheduled
  \* ---- RatedUnqueue
  _rate,          \* rate limiter: [rate, allow, last]
  _task,          \* "unjoined" | "scheduled" | "unscheduled"
  ru_phase,       \* "constructed" | "configured" | "initialized"
  ru_conf,        \* configure's return value
  ru_up,          \* packets waiting upstream of input 0 (a Queue)
  ru_made,        \* number of packets ever offered upstream
  ru_out,         \* [pkt, at, rate] of every packet pushed on output 0
  ru_run,         \* events of the last run_scheduled, in order
  ru_resched,     \* how the last run_scheduled ended: "none" | "fast" | "no"
  ru_hret,        \* return value of the last rate write handler call
  ru_hcalls,      \* number of rate write handler calls
  ru_attempts,    \* Scenario 1: task runs made so far
  ru_arg,         \* configure's arguments parsed
  ru_written,     \* the text last written to the rate handler
  \* ---- SendPattern
  _len,           \* configured packet length
  sp_phase,       \* "constructed" | "configured"
  sp_conf,        \* configure's return value
  sp_ret,         \* result of the last pull: "nopull" | "none" | a packet
  sp_run,         \* events of the last pull, in order
  sp_pulls,       \* number of pull calls
  sp_crashed,     \* the process died in pull
  \* ---- IPGWOptions
  gw_noutputs,    \* number of outputs wired (notify_noutputs)
  gw_phase,       \* "constructed" | "configured"
  gw_log          \* per packet handled: [pkt, out0, out1]

locVars == <<_deltas, _next, _t0, loc_phase, loc_res, nlat, nlon, nt, loc_t0_call, loc_calls,
            loc_in>>
clockVars == <<now, ticks>>
ripVars == <<_timer, rip_phase, rip_init, rip_fires, rip_out, rip_run, rip_arms, rip_crashed>>
ruVars == <<_rate, _task, ru_phase, ru_conf, ru_up, ru_made, ru_out, ru_run, ru_resched,
            ru_hret, ru_hcalls, ru_attempts, ru_arg, ru_written>>
spVars == <<_len, sp_phase, sp_conf, sp_ret, sp_run, sp_pulls, sp_crashed>>
gwVars == <<gw_noutputs, gw_phase, gw_log>>
vars == <<locVars, clockVars, ripVars, ruVars, spVars, gwVars>>

\* ---------------------------------------------------------------- bounds
MaxEntries == 3      \* longest trace file, in lines
MaxCalls == 5        \* choose_new_leg calls explored
MaxTicks == 4        \* clock advances explored
MaxFires == 3        \* firings of RIPSend's timer explored
MaxLen == 3          \* longest SendPattern packet
MaxPulls == 3        \* SendPattern pulls explored
MaxPkts == 3         \* packets offered upstream of RatedUnqueue
MaxWrites == 1       \* calls of RatedUnqueue's rate write handler
MaxGwPkts == 2       \* packets handed to IPGWOptions

SeqsUpTo(S, n) == UNION {[1..k -> S] : k \in 0..n}

Max(a, b) == IF a >= b THEN a ELSE b
Min(a, b) == IF a <= b THEN a ELSE b

\* ============================================================ LocFromFile

\* struct delta { double interval, lat, lon; }
Intervals == {5, 7, 10}
Lats == {1, 2}
Lons == {3, 4}
Delta == [interval : Intervals, lat : Lats, lon : Lons]

\* A line of the trace file is the tuple of numbers on it; sscanf with
\* "%lf%lf%lf" converts at most three of them and returns how many.  A line
\* may hold more than three numbers, fewer, or none.
GoodLines == {<<d.interval, d.lat, d.lon>> : d \in Delta}
LongLines == {<<7, 2, 4, 1>>}
BadLines == {<<5, 1>>, <<>>}
Lines == GoodLines \cup LongLines \cup BadLines
Files == SeqsUpTo(Lines, MaxEntries)

sscanf(line) == Min(3, Len(line))
ToDelta(line) == [interval |-> line[1], lat |-> line[2], lon |-> line[3]]

\* Base times the mover (GridLocationInfo) can hold in _t0.
BaseTimes == {0, 100}

\* The prefix of the file that the fgets/sscanf loop pushes onto _deltas:
\* every line up to (not including) the first one that does not parse.
RECURSIVE ParsedPrefix(_)
ParsedPrefix(file) ==
  IF file = <<>> \/ sscanf(Head(file)) # 3 THEN <<>>
  ELSE <<ToDelta(Head(file))>> \o ParsedPrefix(Tail(file))

\* Variant that accepts a file without entries.
ConfigureResult_EmptyOk(argsOk, opens, file) ==
  IF ~argsOk THEN -1
  ELSE IF ~opens THEN -1
  ELSE IF Len(ParsedPrefix(file)) < Len(file) THEN -1
  ELSE 0

\* configure's return value: res of cp_va_parse when it is negative, the
\* negative value of errh->error on the three error paths, else res (0).
ConfigureResult(argsOk, opens, file) ==
  IF ~argsOk THEN -1
  ELSE IF ~opens THEN -1
  ELSE IF Len(ParsedPrefix(file)) < Len(file) THEN -1
  ELSE IF Len(file) < 1 THEN -1
  ELSE 0

LocFromFile_configure ==
  /\ loc_phase = "constructed"
  /\ loc_phase' = "configured"
  /\ \E argsOk \in BOOLEAN, opens \in BOOLEAN, file \in Files :
       /\ loc_res' = ConfigureResult(argsOk, opens, file)
       /\ loc_in' = [argsOk |-> argsOk, opens |-> opens, file |-> file]
       /\ _deltas' = IF argsOk /\ opens THEN ParsedPrefix(file) ELSE _deltas
  /\ UNCHANGED <<_next, _t0, nlat, nlon, nt, loc_t0_call, loc_calls>>
  /\ UNCHANGED <<clockVars, ripVars, ruVars, spVars, gwVars>>

\* Variant that wraps one call late.
AdvanceNext_WrapLate(next, size) == IF next + 1 > size THEN 0 ELSE next + 1

\* Off-by-one variant: wraps one entry early.
AdvanceNext_WrapEarly(next, size) == IF next + 1 >= size - 1 THEN 0 ELSE next + 1

\* _next += 1; if (_next >= _deltas.size()) _next = 0;
AdvanceNext(next, size) == IF next + 1 >= size THEN 0 ELSE next + 1

\* Variant that reads the entry after advancing the index.
CurrentDelta_AfterAdvance(deltas, next) == deltas[AdvanceNext(next, Len(deltas)) + 1]

\* The entry choose_new_leg reads: _deltas[_next] (0-based in the code).
CurrentDelta(deltas, next) == deltas[next + 1]

LocFromFile_choose_new_leg ==
  /\ loc_phase = "configured" /\ loc_res = 0
  /\ loc_calls < MaxCalls
  /\ nlat' = CurrentDelta(_deltas, _next).lat
  /\ nlon' = CurrentDelta(_deltas, _next).lon
  /\ nt' = _t0 + CurrentDelta(_deltas, _next).interval
  /\ _next' = AdvanceNext(_next, Len(_deltas))
  /\ loc_t0_call' = _t0
  /\ loc_calls' = loc_calls + 1
  /\ UNCHANGED <<_deltas, _t0, loc_phase, loc_res, loc_in>>
  /\ UNCHANGED <<clockVars, ripVars, ruVars, spVars, gwVars>>

\* The mover starts a new leg: its base time becomes another value.
GridLocationInfo_set_t0 ==
  /\ loc_phase = "configured" /\ loc_res = 0
  /\ \E t \in BaseTimes : t # _t0 /\ _t0' = t
  /\ UNCHANGED <<_deltas, _next, loc_phase, loc_res, loc_in, nlat, nlon, nt, loc_t0_call, loc_calls>>
  /\ UNCHANGED <<clockVars, ripVars, ruVars, spVars, gwVars>>

\* ================================================================= Clock

\* Amounts by which the clock advances between two scheduling passes, ms.
RipSteps == {1000, 3000, 30000}

RuSteps == {100, 500}

\* Time passes; nothing else happens.
Tick(steps) ==
  /\ ticks < MaxTicks
  /\ \E d \in steps : now' = now + d
  /\ ticks' = ticks + 1
  /\ UNCHANGED <<locVars, ripVars, ruVars, spVars, gwVars>>

RIP_Tick == Tick(RipSteps)
RU_Tick == Tick(RuSteps)

\* ================================================================= Timer
\* A single-shot deadline callback: unscheduled, pending(deadline) or fired.

\* Arming a timer that is already pending is rejected; the timer keeps its
\* deadline.
Timer_schedule_at(timer, deadline) ==
  IF timer.state = "pending" THEN timer
  ELSE [state |-> "pending", deadline |-> deadline]

\* A pending timer fires on a scheduling pass once its deadline has passed.
Timer_due(timer, t) == timer.state = "pending" /\ t >= timer.deadline

\* Firing takes the timer off the queue before its callback runs.
Timer_fire(timer) == [timer EXCEPT !.state = "fired"]

\* =============================================================== RIPSend

\* _timer.schedule_after_ms(3 * 1000)
InitialDeadline(t) == t + 3 * 1000

\* Variant that rearms with the initial delay.
RearmDeadline_Initial(t) == t + 3 * 1000

\* _timer.schedule_after_ms(30 * 1000)
RearmDeadline(t) == t + 30 * 1000

RIPSend_initialize ==
  /\ rip_phase = "constructed"
  /\ rip_phase' = "initialized"
  /\ rip_init' = now
  /\ _timer' = Timer_schedule_at([state |-> "unscheduled", deadline |-> 0],
                                 InitialDeadline(now))
  /\ rip_arms' = Append(rip_arms, [at |-> now, deadline |-> InitialDeadline(now)])
  /\ UNCHANGED <<rip_fires, rip_out, rip_run, rip_crashed>>
  /\ UNCHANGED <<locVars, clockVars, ruVars, spVars, gwVars>>

\* Variant that sets the header annotation after the push.
RIPSend_steps_UseAfterPush == <<"make", "write", "push", "write", "schedule">>

\* The steps of run_scheduled when Packet::make returned a packet: the packet
\* is made, its bytes are written, it is pushed, the timer is rearmed.
RIPSend_steps == <<"make", "write", "push", "schedule">>

\* Packet::make returned 0; the code does not test p and writes through it
\* (memset(p->data(), ...)).  That is undefined behaviour: the process dies at
\* the write, or the write goes unnoticed and the rest of the body runs.
RIPSend_steps_died == <<"make_absent", "write_absent">>
RIPSend_steps_survived == <<"make_absent", "write_absent", "push", "schedule">>

\* The timer fires and calls run_scheduled.
RIPSend_run_scheduled ==
  /\ rip_phase = "initialized" /\ ~rip_crashed
  /\ Timer_due(_timer, now)
  /\ Len(rip_fires) < MaxFires
  /\ rip_fires' = Append(rip_fires, now)
  /\ \E allocOk \in BOOLEAN :
       \/ /\ allocOk
          /\ rip_run' = RIPSend_steps
          /\ rip_out' = Append(rip_out, [absent |-> FALSE, at |-> now])
          /\ _timer' = Timer_schedule_at(Timer_fire(_timer), RearmDeadline(now))
          /\ rip_arms' = Append(rip_arms, [at |-> now, deadline |-> RearmDeadline(now)])
          /\ UNCHANGED rip_crashed
       \/ /\ ~allocOk
          /\ rip_run' = RIPSend_steps_died
          /\ rip_crashed' = TRUE
          /\ _timer' = Timer_fire(_timer)
          /\ UNCHANGED <<rip_out, rip_arms>>
       \/ /\ ~allocOk
          /\ rip_run' = RIPSend_steps_survived
          /\ rip_out' = Append(rip_out, [absent |-> TRUE, at |-> now])
          /\ _timer' = Timer_schedule_at(Timer_fire(_timer), RearmDeadline(now))
          /\ rip_arms' = Append(rip_arms, [at |-> now, deadline |-> RearmDeadline(now)])
          /\ UNCHANGED rip_crashed
  /\ UNCHANGED <<rip_phase, rip_init>>
  /\ UNCHANGED <<locVars, clockVars, ruVars, spVars, gwVars>>

\* =========================================================== RateLimiter
\* Leaky bucket with one burst credit: [rate, allow, last].  rate is in
\* operations per second, times are in ms, so the allowance is counted in
\* thousandths of an operation (rate * ms) and never drifts.

MsPerSec == 1000

\* One operation, and the most the bucket holds: one burst credit.
OneOp == 1 * MsPerSec
BurstCredit == 1 * OneOp

RateLimiter_new == [rate |-> 0, allow |-> BurstCredit, last |-> 0]

\* The allowance at time t: what was left at the last update plus what has
\* accumulated since, never more than the burst credit.
RateLimiter_allowance(rl, t) ==
  Min(BurstCredit, rl.allow + rl.rate * (t - rl.last))

\* need_update(now): read-only check that the next operation is permitted.
RateLimiter_need_update(rl, t) == RateLimiter_allowance(rl, t) >= OneOp

\* update(now): commits consumption of one unit and advances the clock state;
\* the allowance floor is zero.
RateLimiter_update(rl, t) ==
  [rl EXCEPT !.allow = Max(0, RateLimiter_allowance(rl, t) - OneOp), !.last = t]

\* set_rate(r): changes the rate without resetting the allowance.
RateLimiter_set_rate(rl, r) == [rl EXCEPT !.rate = r]

\* ================================================================== Task
\* A task is on its scheduler's run list ("scheduled") or not.

\* ScheduleInfo::join_scheduler inserts the task, initially enabled.
Task_join_scheduler(task) == "scheduled"

\* The scheduler takes the task off the run list to run it.
Task_run(task) == "unscheduled"

\* fast_reschedule re-inserts the task for an immediate revisit.
Task_fast_reschedule(task) == "scheduled"

\* ========================================================== RatedUnqueue

\* Rates (packets per second) given to configure.
Rates == {0, 2, 10}

\* Texts written to the "rate" handler, as sequences of characters.
Digits == <<"0", "1", "2", "3", "4", "5", "6", "7", "8", "9">>
HandlerTexts == {<<"2", " ">>, <<"1", "0">>, <<"1", "x">>}

DigitValue(c) == (CHOOSE i \in 1..Len(Digits) : Digits[i] = c) - 1
IsDigit(c) == \E i \in 1..Len(Digits) : Digits[i] = c

\* cp_unsigned: succeeds on a non-empty string of decimal digits and yields
\* its value.
RECURSIVE DecimalValue(_)
DecimalValue(text) ==
  IF text = <<>> THEN 0
  ELSE 10 * DecimalValue(SubSeq(text, 1, Len(text) - 1)) + DigitValue(text[Len(text)])

cp_unsigned(text) ==
  IF text # <<>> /\ \A i \in 1..Len(text) : IsDigit(text[i])
  THEN [ok |-> TRUE, value |-> DecimalValue(text)]
  ELSE [ok |-> FALSE, value |-> 0]

\* cp_uncomment: the text without the blanks around it.
RECURSIVE cp_uncomment(_)
cp_uncomment(text) ==
  IF text = <<>> THEN text
  ELSE IF Head(text) = " " THEN cp_uncomment(Tail(text))
  ELSE IF text[Len(text)] = " " THEN cp_uncomment(SubSeq(text, 1, Len(text) - 1))
  ELSE text

\* set_rate(r, errh) { _rate.set_rate(r, errh); }
RatedUnqueue_set_rate(rl, r) == RateLimiter_set_rate(rl, r)

RatedUnqueue_configure ==
  /\ ru_phase = "constructed"
  /\ ru_phase' = "configured"
  /\ \E argsOk \in BOOLEAN, r \in Rates :
       /\ ru_arg' = argsOk
       /\ IF ~argsOk
          THEN ru_conf' = -1 /\ UNCHANGED _rate
          ELSE ru_conf' = 0 /\ _rate' = RatedUnqueue_set_rate(_rate, r)
  /\ UNCHANGED <<_task, ru_up, ru_made, ru_out, ru_run, ru_resched, ru_hret,
                 ru_hcalls, ru_attempts, ru_written>>
  /\ UNCHANGED <<locVars, clockVars, ripVars, spVars, gwVars>>

RatedUnqueue_initialize ==
  /\ ru_phase = "configured" /\ ru_conf = 0
  /\ ru_phase' = "initialized"
  /\ _task' = Task_join_scheduler(_task)
  /\ UNCHANGED <<_rate, ru_conf, ru_up, ru_made, ru_out, ru_run, ru_resched,
                 ru_hret, ru_hcalls, ru_attempts, ru_arg, ru_written>>
  /\ UNCHANGED <<locVars, clockVars, ripVars, spVars, gwVars>>

\* Variant that sets the rate whatever cp_unsigned returned.
HandlerOutcome_Unchecked(rl, text) ==
  [ret |-> 0, rl |-> RatedUnqueue_set_rate(rl, cp_unsigned(cp_uncomment(text)).value)]

\* if (!cp_unsigned(cp_uncomment(conf), &r)) return errh->error(...);
\* me->set_rate(r); return 0;
HandlerOutcome(rl, text) ==
  LET parsed == cp_unsigned(cp_uncomment(text)) IN
  IF ~parsed.ok THEN [ret |-> -1, rl |-> rl]
  ELSE [ret |-> 0, rl |-> RatedUnqueue_set_rate(rl, parsed.value)]

rate_write_handler ==
  /\ ru_phase \in {"configured", "initialized"} /\ ru_conf = 0
  /\ ru_hcalls < MaxWrites
  /\ ru_hcalls' = ru_hcalls + 1
  /\ \E text \in HandlerTexts :
       /\ ru_written' = text
       /\ ru_hret' = HandlerOutcome(_rate, text).ret
       /\ _rate' = HandlerOutcome(_rate, text).rl
  /\ UNCHANGED <<_task, ru_phase, ru_conf, ru_up, ru_made, ru_out, ru_run,
                 ru_resched, ru_attempts, ru_arg>>
  /\ UNCHANGED <<locVars, clockVars, ripVars, spVars, gwVars>>

\* The element upstream of input 0 gets one more packet to hand out.
Upstream_enqueue ==
  /\ ru_made < MaxPkts
  /\ ru_made' = ru_made + 1
  /\ ru_up' = Append(ru_up, ru_made + 1)
  /\ UNCHANGED <<_rate, _task, ru_phase, ru_conf, ru_out, ru_run, ru_resched,
                 ru_hret, ru_hcalls, ru_attempts, ru_arg, ru_written>>
  /\ UNCHANGED <<locVars, clockVars, ripVars, spVars, gwVars>>

\* Variant that pulls without asking the limiter.
Admitted_Always(rl, t) == TRUE

\* if (_rate.need_update(now))
Admitted(rl, t) == RateLimiter_need_update(rl, t)

\* Variant that forgets to commit the consumption.
Consumed_Forgotten(rl, t) == rl

\* _rate.update(), after a pull that returned a packet
Consumed(rl, t) == RateLimiter_update(rl, t)

\* Variant that reschedules only after forwarding a packet.
EndOfRun_OnlyAfterPush(task, pushed) ==
  IF pushed THEN Task_fast_reschedule(task) ELSE task

\* _task.fast_reschedule(), the last statement, on every path
EndOfRun(task, pushed) == Task_fast_reschedule(task)

\* Variant that releases the packet after pushing it.
RatedUnqueue_steps_KillAfterPush(permit, avail) ==
  IF ~permit THEN <<"need_update", "fast_reschedule">>
  ELSE IF ~avail THEN <<"need_update", "pull", "fast_reschedule">>
  ELSE <<"need_update", "pull", "update", "push", "kill", "fast_reschedule">>

\* The calls run_scheduled makes, in order, on each of its three paths.
RatedUnqueue_steps(permit, avail) ==
  IF ~permit THEN <<"need_update", "fast_reschedule">>
  ELSE IF ~avail THEN <<"need_update", "pull", "fast_reschedule">>
  ELSE <<"need_update", "pull", "update", "push", "fast_reschedule">>

\* Variant that commits the update as soon as the check permits.
Committed_BeforePull(permit, avail) == permit

\* update(now) is called inside `if (Packet *p = input(0).pull())`: only when
\* the check permitted the pull and the pull returned a packet.
Committed(permit, avail) == permit /\ avail

\* Variant that pushes the packet twice.
Forwarded_Twice(p, t, rate) ==
  <<[pkt |-> p, at |-> t, rate |-> rate], [pkt |-> p, at |-> t, rate |-> rate]>>

\* output(0).push(p): the pulled packet goes out once, on output 0.
Forwarded(p, t, rate) == <<[pkt |-> p, at |-> t, rate |-> rate]>>

\* One run of the task at time t with `up` waiting upstream: the new limiter,
\* what is left upstream, the packets pushed, the calls made, the task.
RunResult(rl, task, up, t) ==
  LET permit == Admitted(rl, t)
      avail == up # <<>>
      pushed == permit /\ avail
  IN [rl |-> IF Committed(permit, avail) THEN Consumed(rl, t) ELSE rl,
      up |-> IF pushed THEN Tail(up) ELSE up,
      out |-> IF pushed THEN Forwarded(Head(up), t, rl.rate) ELSE <<>>,
      run |-> RatedUnqueue_steps(permit, avail),
      task |-> EndOfRun(Task_run(task), pushed),
      resched |-> IF EndOfRun(Task_run(task), pushed) = "scheduled" THEN "fast" ELSE "no"]

RatedUnqueue_run_scheduled ==
  /\ ru_phase = "initialized" /\ _task = "scheduled"
  /\ LET r == RunResult(_rate, _task, ru_up, now) IN
       /\ _rate' = r.rl
       /\ ru_up' = r.up
       /\ ru_out' = ru_out \o r.out
       /\ ru_run' = r.run
       /\ _task' = r.task
       /\ ru_resched' = r.resched
  /\ UNCHANGED <<ru_phase, ru_conf, ru_made, ru_hret, ru_hcalls, ru_attempts, ru_arg,
                 ru_written>>
  /\ UNCHANGED <<locVars, clockVars, ripVars, spVars, gwVars>>

\* ------------------------------------------------------------ Scenario 1
\* The limiter at 10 operations per second, 100 task runs spread uniformly
\* over 5 seconds, a packet available upstream at every run.
Scenario1 == [rate |-> 10, attempts |-> 100, span |-> 5000]
Scenario1_spacing == Scenario1.span \div Scenario1.attempts

\* Offsets of the first run from the limiter's start, ms.
Scenario1_starts == {0, 30, 70, 950}

Scenario1_configure ==
  /\ RatedUnqueue_configure
  /\ ru_conf' = 0
  /\ _rate'.rate = Scenario1.rate

Scenario1_start ==
  /\ ru_phase = "initialized" /\ ru_attempts = 0 /\ now = 0 /\ ticks = 0
  /\ \E d \in Scenario1_starts \ {0} : now' = d
  /\ ticks' = 1
  /\ UNCHANGED <<locVars, ripVars, ruVars, spVars, gwVars>>

\* One run of the task with a packet waiting, then the clock moves on to the
\* time of the next run.
Scenario1_attempt ==
  /\ ru_phase = "initialized" /\ _task = "scheduled"
  /\ ru_attempts < Scenario1.attempts
  /\ LET r == RunResult(_rate, _task, <<ru_attempts + 1>>, now) IN
       /\ _rate' = r.rl
       /\ ru_out' = ru_out \o r.out
       /\ ru_run' = r.run
       /\ _task' = r.task
       /\ ru_resched' = r.resched
  /\ ru_attempts' = ru_attempts + 1
  /\ now' = now + Scenario1_spacing
  /\ UNCHANGED <<ru_phase, ru_conf, ru_up, ru_made, ru_hret, ru_hcalls, ticks, ru_arg,
                 ru_written>>
  /\ UNCHANGED <<locVars, ripVars, spVars, gwVars>>

\* =========================================================== SendPattern

\* Packet lengths given to configure: short ones, and ones around the
\* points where the byte pattern starts over.
WrapLengths == {255, 256, 257, 511, 512, 513}
Lengths == (0..MaxLen) \cup WrapLengths

\* a & b on non-negative integers, bit by bit.
RECURSIVE BitAnd(_, _)
BitAnd(a, b) ==
  IF a = 0 \/ b = 0 THEN 0
  ELSE (a % 2) * (b % 2) + 2 * BitAnd(a \div 2, b \div 2)

\* Variant that stores the index without masking it.
Pattern_Unmasked(len) == [i \in 1..len |-> i - 1]

\* p->data()[i] = i & 0xff, for i = 0 .. _len-1
Pattern(len) == [i \in 1..len |-> BitAnd(i - 1, 255)]

SendPattern_configure ==
  /\ sp_phase = "constructed"
  /\ sp_phase' = "configured"
  /\ \E argsOk \in BOOLEAN, len \in Lengths :
       /\ sp_conf' = IF argsOk THEN 0 ELSE -1
       /\ _len' = IF argsOk THEN len ELSE _len
  /\ UNCHANGED <<sp_ret, sp_run, sp_pulls, sp_crashed>>
  /\ UNCHANGED <<locVars, clockVars, ripVars, ruVars, gwVars>>

\* The steps of pull: the allocation, then one write per byte.
SendPattern_steps(len, allocOk) ==
  IF allocOk THEN <<"make">> \o [i \in 1..len |-> "write"]
  ELSE <<"make_absent">> \o [i \in 1..len |-> "write_absent"]

SendPattern_pull ==
  /\ sp_phase = "configured" /\ sp_conf = 0 /\ ~sp_crashed
  /\ sp_pulls < MaxPulls
  /\ sp_pulls' = sp_pulls + 1
  /\ \E allocOk \in BOOLEAN :
       \/ /\ allocOk
          /\ sp_run' = SendPattern_steps(_len, TRUE)
          /\ sp_ret' = [none |-> FALSE, data |-> Pattern(_len)]
          /\ UNCHANGED sp_crashed
       \/ \* Packet::make returned 0 and the loop body never runs
          /\ ~allocOk /\ _len = 0
          /\ sp_run' = SendPattern_steps(_len, FALSE)
          /\ sp_ret' = [none |-> TRUE, data |-> <<>>]
          /\ UNCHANGED sp_crashed
       \/ \* the first write goes through the absent packet: the process dies
          /\ ~allocOk /\ _len > 0
          /\ sp_run' = SubSeq(SendPattern_steps(_len, FALSE), 1, 2)
          /\ sp_crashed' = TRUE
          /\ UNCHANGED sp_ret
       \/ \* or the writes go unnoticed and pull returns the absent packet
          /\ ~allocOk /\ _len > 0
          /\ sp_run' = SendPattern_steps(_len, FALSE)
          /\ sp_ret' = [none |-> TRUE, data |-> <<>>]
          /\ UNCHANGED sp_crashed
  /\ UNCHANGED <<_len, sp_phase, sp_conf>>
  /\ UNCHANGED <<locVars, clockVars, ripVars, ruVars, gwVars>>

\* =========================================================== IPGWOptions
\* A packet is the options area of its IP header, a sequence of bytes that
\* follows the fixed part of the header.  Options: end of list (0), no
\* operation (1), record route (7: type, length, pointer, 4-byte slots).

IPOPT_EOL == 0
IPOPT_NOP == 1
IPOPT_RR == 7
FixedHeader == 5 * 4
MYADDR == <<10, 0, 0, 1>>

\* A record-route option with one slot: empty (pointer 4) or full (pointer 8).
RREmpty == <<7, 7, 4, 0, 0, 0, 0>>
RRFull == <<7, 7, 8, 9, 9, 9, 9>>
Nops == {<<>>, <<1>>, <<1, 1>>}
GwPackets == {n \o o : n \in Nops, o \in {<<>>, RREmpty, RRFull}}

\* oa with the four bytes from (1-based) position at replaced by addr.
WriteAddr(oa, at, addr) ==
  [i \in 1..Len(oa) |-> IF i >= at /\ i < at + 4 THEN addr[i - at + 1] ELSE oa[i]]

\* Walk the options from (1-based) position oi.  A record route with room
\* gets MYADDR in its next slot and its pointer advanced by 4; one whose slots
\* are full is an error at the first byte of that option.
RECURSIVE handle_options(_, _)
handle_options(oa, oi) ==
  IF oi > Len(oa) \/ oa[oi] = IPOPT_EOL THEN [err |-> FALSE, opts |-> oa, off |-> 0]
  ELSE IF oa[oi] = IPOPT_NOP THEN handle_options(oa, oi + 1)
  ELSE LET optlen == oa[oi + 1]
           ptr == oa[oi + 2]
       IN IF oa[oi] # IPOPT_RR THEN handle_options(oa, oi + optlen)
          ELSE IF ptr + 3 <= optlen
          THEN handle_options(
                 [WriteAddr(oa, oi + ptr - 1, MYADDR) EXCEPT ![oi + 2] = ptr + 4],
                 oi + optlen)
          ELSE [err |-> TRUE, opts |-> oa, off |-> FixedHeader + (oi - 1)]

\* Variant that leaves the annotation unset.
SetParamOff_Unset(pkt, off) == [opts |-> pkt, param_off |-> 0]

\* The packet sent to the second output carries the param_off annotation, so
\* that ICMPError can point the Parameter Problem at the erroneous byte.
SetParamOff(pkt, off) == [opts |-> pkt, param_off |-> off]

\* processing() is "a/ah": output 1 is a push output; a packet sent there
\* when nothing is wired to it is dropped.
checked_output_push(noutputs, port, p) == IF port < noutputs THEN <<p>> ELSE <<>>

\* notify_noutputs: one output, or two when the error output is wired.
IPGWOptions_notify_noutputs ==
  /\ gw_phase = "constructed"
  /\ gw_phase' = "configured"
  /\ \E n \in {1, 2} : gw_noutputs' = n
  /\ UNCHANGED gw_log
  /\ UNCHANGED <<locVars, clockVars, ripVars, ruVars, spVars>>

\* simple_action: the packet that goes on to output 0 and, on the error path,
\* the diagnostic for output 1.
IPGWOptions_simple_action ==
  /\ gw_phase = "configured"
  /\ Len(gw_log) < MaxGwPkts
  /\ \E pkt \in GwPackets :
       LET r == handle_options(pkt, 1) IN
       gw_log' = Append(gw_log,
         [pkt |-> pkt,
          out0 |-> IF r.err THEN pkt ELSE r.opts,
          out1 |-> IF r.err
                   THEN checked_output_push(gw_noutputs, 1, SetParamOff(pkt, r.off))
                   ELSE <<>>])
  /\ UNCHANGED <<gw_noutputs, gw_phase>>
  /\ UNCHANGED <<locVars, clockVars, ripVars, ruVars, spVars>>

\* ================================================================== Init

InitLoc ==
  /\ _deltas = <<>>
  /\ _next = 0
  /\ _t0 = 0
  /\ loc_phase = "constructed"
  /\ loc_res = 0
  /\ nlat = 0 /\ nlon = 0 /\ nt = 0
  /\ loc_t0_call = 0
  /\ loc_calls = 0
  /\ loc_in = [argsOk |-> FALSE, opens |-> FALSE, file |-> <<>>]

InitClock == now = 0 /\ ticks = 0

InitRIP ==
  /\ _timer = [state |-> "unscheduled", deadline |-> 0]
  /\ rip_phase = "constructed"
  /\ rip_init = 0
  /\ rip_fires = <<>>
  /\ rip_out = <<>>
  /\ rip_run = <<>>
  /\ rip_arms = <<>>
  /\ rip_crashed = FALSE

InitRU ==
  /\ _rate = RateLimiter_new
  /\ _task = "unjoined"
  /\ ru_phase = "constructed"
  /\ ru_conf = 0
  /\ ru_up = <<>>
  /\ ru_made = 0
  /\ ru_out = <<>>
  /\ ru_run = <<>>
  /\ ru_resched = "none"
  /\ ru_hret = 0
  /\ ru_hcalls = 0
  /\ ru_attempts = 0
  /\ ru_arg = FALSE
  /\ ru_written = <<>>

InitSP ==
  /\ _len = 1
  /\ sp_phase = "constructed"
  /\ sp_conf = 0
  /\ sp_ret = [none |-> TRUE, data |-> <<>>]
  /\ sp_run = <<>>
  /\ sp_pulls = 0
  /\ sp_crashed = FALSE

InitGW ==
  /\ gw_noutputs = 1
  /\ gw_phase = "constructed"
  /\ gw_log = <<>>

Init == InitLoc /\ InitClock /\ InitRIP /\ InitRU /\ InitSP /\ InitGW

\* ================================================================= Specs

NextLoc ==
  \/ LocFromFile_configure
  \/ LocFromFile_choose_new_leg
  \/ GridLocationInfo_set_t0

SpecLoc == Init /\ [][NextLoc]_vars

NextRIP ==
  \/ RIP_Tick
  \/ RIPSend_initialize
  \/ RIPSend_run_scheduled

SpecRIP == Init /\ [][NextRIP]_vars

NextSP ==
  \/ SendPattern_configure
  \/ SendPattern_pull

SpecSP == Init /\ [][NextSP]_vars

NextRU ==
  \/ RU_Tick
  \/ RatedUnqueue_configure
  \/ RatedUnqueue_initialize
  \/ rate_write_handler
  \/ Upstream_enqueue
  \/ RatedUnqueue_run_scheduled

SpecRU == Init /\ [][NextRU]_vars

\* The task scheduler serves its run list round-robin, so a scheduled task
\* is run again and again.
SpecRUFair == SpecRU /\ WF_vars(RatedUnqueue_run_scheduled)

NextScenario1 ==
  \/ Scenario1_configure
  \/ RatedUnqueue_initialize
  \/ Scenario1_start
  \/ Scenario1_attempt

SpecScenario1 == Init /\ [][NextScenario1]_vars

\* The elements share no state but the clock, so a claim about two of them is
\* checked on the behaviours that exercise one of them and leave the other as
\* constructed.
RIPUntouched == rip_phase = "constructed"
RUUntouched == ru_phase = "constructed" /\ ru_made = 0
SPUntouched == sp_phase = "constructed"

\* RatedUnqueue or RIPSend: the two elements that push.
NextPush ==
  \/ RIPUntouched /\ RU_Tick
  \/ RIPUntouched /\ RatedUnqueue_configure
  \/ RIPUntouched /\ RatedUnqueue_initialize
  \/ RIPUntouched /\ rate_write_handler
  \/ RIPUntouched /\ Upstream_enqueue
  \/ RIPUntouched /\ RatedUnqueue_run_scheduled
  \/ RUUntouched /\ RIP_Tick
  \/ RUUntouched /\ RIPSend_initialize
  \/ RUUntouched /\ RIPSend_run_scheduled

SpecPush == Init /\ [][NextPush]_vars

\* RIPSend or SendPattern: the two elements that allocate.
NextAlloc ==
  \/ SPUntouched /\ RIP_Tick
  \/ SPUntouched /\ RIPSend_initialize
  \/ SPUntouched /\ RIPSend_run_scheduled
  \/ RIPUntouched /\ SendPattern_configure
  \/ RIPUntouched /\ SendPattern_pull

SpecAlloc == Init /\ [][NextAlloc]_vars

NextGW ==
  \/ IPGWOptions_notify_noutputs
  \/ IPGWOptions_simple_action

SpecGW == Init /\ [][NextGW]_vars

\* ================================================================ Claims

IntervalsOf(ds) == [i \in 1..Len(ds) |-> ds[i].interval]
LocOk == loc_phase = "configured" /\ loc_res = 0
Scenario4 == LocOk /\ IntervalsOf(_deltas) = <<5, 10, 7>>

\* C1 as stated: with intervals [5,10,7] and a start at entry 0, once four
\* calls of choose_new_leg have completed the current index _next is 0 again.
C1_Original == (Scenario4 /\ loc_calls = 4) => _next = 0

\* C1 amended: with intervals [5,10,7] and a start at entry 0, _next is 0
\* again once three calls have completed; the 4th call is the one that uses
\* entry 0 again (its target is base time + 5) and leaves _next = 1.
C1_Amended ==
  Scenario4 =>
    /\ loc_calls = 3 => _next = 0
    /\ loc_calls = 4 => /\ _next = 1
                        /\ nt = loc_t0_call + 5
                        /\ nlat = _deltas[1].lat /\ nlon = _deltas[1].lon

C1_Witness == Scenario4 /\ loc_calls = 4 /\ _next = 1

\* C2: after the k-th call (k >= 1) on a trace of n entries the returned
\* target time is the base time at the call plus the interval of entry
\* (k-1) mod n, the returned latitude and longitude are those of that entry,
\* and that entry is the one that was current when the call started.
C2_Target ==
  (LocOk /\ loc_calls >= 1) =>
    LET n == Len(_deltas)
        k == (loc_calls - 1) % n
        e == _deltas[k + 1]
    IN /\ nt = loc_t0_call + e.interval
       /\ nlat = e.lat
       /\ nlon = e.lon
       /\ _next = (k + 1) % n

C2_Witness ==
  /\ LocOk /\ Len(_deltas) = 3 /\ loc_calls = 5 /\ loc_t0_call = 100
  /\ _deltas[1] # _deltas[2] /\ _deltas[2] # _deltas[3]

\* ------------------------------------------------------------- RIPSend

\* C3: initialize arms the timer at 3000 ms after initialization and every
\* firing rearms it at the time of the firing + 30000 ms; the first firing is
\* at least 3000 ms after initialize and two consecutive firings are at least
\* 30000 ms apart.
C3_Timing ==
  /\ rip_phase = "initialized" =>
       /\ Len(rip_arms) >= 1
       /\ rip_arms[1] = [at |-> rip_init, deadline |-> rip_init + 3000]
  /\ \A i \in 2..Len(rip_arms) :
       /\ rip_arms[i].at = rip_fires[i - 1]
       /\ rip_arms[i].deadline = rip_arms[i].at + 30000
  /\ Len(rip_fires) >= 1 => rip_fires[1] >= rip_init + 3000
  /\ \A i \in 1..(Len(rip_fires) - 1) : rip_fires[i + 1] - rip_fires[i] >= 30000

C3_Witness ==
  /\ Len(rip_fires) = 3
  /\ rip_fires[1] > rip_init + 3000
  /\ rip_fires[2] = rip_fires[1] + 30000
  /\ _timer = [state |-> "pending", deadline |-> rip_fires[3] + 30000]

Absent(run) == run # <<>> /\ run[1] = "make_absent"
Has(run, step) == \E i \in 1..Len(run) : run[i] = step

\* C6: when Packet::make yields an absent packet the allocating element
\* produces nothing and does not touch the absent packet: RIPSend's
\* run_scheduled pushes no packet, SendPattern's pull returns none, and
\* neither writes through the absent handle.
C6_ExhaustionPropagated ==
  /\ ~rip_crashed /\ ~sp_crashed
  /\ Absent(rip_run) => ~Has(rip_run, "write_absent") /\ ~Has(rip_run, "push")
  /\ Absent(sp_run) => ~Has(sp_run, "write_absent") /\ sp_ret.none

\* C9: every firing of the timer runs run_scheduled once; that run pushes
\* exactly one advertisement packet and then, as its last step, rearms the
\* timer; the timer is pending again only through that rearm.
C9_FiringPushesAndRearms ==
  /\ Len(rip_out) = Len(rip_fires)
  /\ \A i \in 1..Len(rip_out) : ~rip_out[i].absent /\ rip_out[i].at = rip_fires[i]
  /\ Len(rip_fires) >= 1 =>
       /\ Len(rip_run) >= 2
       /\ rip_run[Len(rip_run)] = "schedule"
       /\ rip_run[Len(rip_run) - 1] = "push"
  /\ rip_phase = "initialized" =>
       /\ Len(rip_arms) = Len(rip_fires) + 1
       /\ _timer.state = "pending"

\* ------------------------------------------------------- RatedUnqueue

UsefulWork(run) == Has(run, "push")

\* C4: a run of RatedUnqueue's task with no useful work (the limiter refused,
\* or the pull returned none) does not end in a fast reschedule: the element
\* steps aside.
C4_StepsAside ==
  (ru_run # <<>> /\ ~UsefulWork(ru_run)) =>
     /\ ru_resched # "fast"
     /\ ~Has(ru_run, "fast_reschedule")

PushedPkts == {ru_out[i].pkt : i \in 1..Len(ru_out)}

\* C5: once initialize has joined the task to the scheduler, every completed
\* run_scheduled leaves the task scheduled, whatever its outcome; and a
\* packet at the head of the upstream queue while the limiter permits is
\* eventually pushed, unless the limiter stops permitting first.
C5_NeverDeregistered ==
  /\ [](ru_phase = "initialized" => _task = "scheduled")
  /\ \A k \in 1..MaxPkts :
       (/\ ru_phase = "initialized"
        /\ ru_up # <<>> /\ Head(ru_up) = k
        /\ RateLimiter_need_update(_rate, now))
         ~> (k \in PushedPkts \/ ~RateLimiter_need_update(_rate, now))

C5_Witness ==
  /\ ru_phase = "initialized" /\ _task = "scheduled"
  /\ ru_run = <<"need_update", "pull", "fast_reschedule">>
  /\ Len(ru_out) >= 1

RECURSIVE MaxRate(_, _, _)
\* The highest rate in effect at one of the pushes i..j of the log.
MaxRate(log, i, j) ==
  IF i = j THEN log[i].rate ELSE Max(log[i].rate, MaxRate(log, i + 1, j))

\* C7: the packets pushed on output 0 within any interval of length T number
\* at most rate x T plus one burst credit, rate being the highest rate in
\* effect at a push of the interval: for any two pushes i < j, the j - i
\* pushes after the first fit into rate x (time from push i to push j).
C7_RateBound ==
  \A i, j \in 1..Len(ru_out) :
    i < j =>
      (j - i) * OneOp <= MaxRate(ru_out, i, j) * (ru_out[j].at - ru_out[i].at)

C7_Witness ==
  /\ Len(ru_out) = 3
  /\ ru_hcalls >= 1 /\ ru_hret = 0
  /\ ru_out[1].rate # ru_out[3].rate
  /\ ru_out[2].at - ru_out[1].at = 100

\* C8: at 10 operations per second, 100 task runs spread uniformly over 5
\* seconds with a packet always available push at most 51 packets.
C8_Scenario1 == Len(ru_out) <= 51

C8_Witness == ru_attempts = 100 /\ Len(ru_out) = 50 /\ _rate.rate = 10

\* Steps that read, write, hand over or release the packet.
PacketSteps == {"make", "write", "make_absent", "write_absent", "pull", "push", "kill"}

NoUseAfterPush(run) ==
  \A i, j \in 1..Len(run) : (i < j /\ run[i] = "push") => run[j] \notin PacketSteps

\* C10: after output(0).push(p) neither RatedUnqueue::run_scheduled nor
\* RIPSend::run_scheduled reads, writes, pushes again or releases the packet;
\* each run hands over at most one packet and each pushed packet was pushed
\* once.
C10_PushTransfersOwnership ==
  /\ NoUseAfterPush(ru_run)
  /\ NoUseAfterPush(rip_run)
  /\ \A i, j \in 1..Len(ru_out) : i # j => ru_out[i].pkt # ru_out[j].pkt
  /\ \A i \in 1..Len(ru_out) : \A k \in 1..Len(ru_up) : ru_up[k] # ru_out[i].pkt

C10_Witness ==
  \/ Has(ru_run, "push") /\ ru_run[Len(ru_run)] = "fast_reschedule" /\ Len(ru_out) = 2
  \/ Has(rip_run, "push") /\ rip_run[Len(rip_run)] = "schedule" /\ Len(rip_out) = 2

\* ---------------------------------------------------------- IPGWOptions

\* The packet's only option, after any no-operations, is a record route whose
\* single slot is taken; at is the (0-based) offset of its type byte in the
\* options area.
FullRecordRoute(pkt, at) ==
  /\ at + 7 = Len(pkt)
  /\ \A i \in 1..at : pkt[i] = 1
  /\ pkt[at + 1] = 7 /\ pkt[at + 2] = 7 /\ pkt[at + 3] > 7 - 3

\* C11: a packet whose single record-route slot is already full comes out of
\* the primary output unmodified, and a diagnostic whose param_off is the
\* offset of the first byte of that option goes to the secondary output; with
\* nothing wired there the diagnostic is dropped and handling goes on.
C11_ErrorPath ==
  \A k \in 1..Len(gw_log) : \A at \in 0..2 :
    FullRecordRoute(gw_log[k].pkt, at) =>
      /\ gw_log[k].out0 = gw_log[k].pkt
      /\ gw_noutputs = 2 =>
           gw_log[k].out1 = <<[opts |-> gw_log[k].pkt, param_off |-> 20 + at]>>
      /\ gw_noutputs = 1 => gw_log[k].out1 = <<>>

C11_Witness ==
  /\ Len(gw_log) = 2
  /\ FullRecordRoute(gw_log[1].pkt, 2)
  /\ gw_noutputs = 2
  /\ gw_log[1].out1 # <<>> /\ gw_log[1].out1[1].param_off = 22
  /\ gw_log[2].pkt = RREmpty /\ gw_log[2].out0 = <<7, 7, 8, 10, 0, 0, 1>>

\* --------------------------------------------- RatedUnqueue: commit protocol

Count(run, step) == Cardinality({i \in 1..Len(run) : run[i] = step})
Before(run, s1, s2) ==
  \A i, j \in 1..Len(run) : run[i] = s1 /\ run[j] = s2 => i < j

\* What one run of the task did, from the states before and after it.
PulledInRun == Len(ru_up) - Len(ru_up')
PushedInRun == Len(ru_out') - Len(ru_out)

\* C12: in every run, need_update is the first call and changes nothing; the
\* input is pulled only if it permitted; update is called iff the pull
\* returned a packet, and before the push; updates, packets pulled and packets
\* pushed are equal in number; a refused check or an empty pull leaves the
\* allowance as it was.
C12_CommitProtocol ==
  [][RatedUnqueue_run_scheduled =>
       LET permitted == RateLimiter_allowance(_rate, now) >= 1000 IN
       /\ ru_run'[1] = "need_update" /\ Count(ru_run', "need_update") = 1
       /\ Before(ru_run', "need_update", "pull")
       /\ Has(ru_run', "pull") => permitted
       /\ PulledInRun \in {0, 1}
       /\ PulledInRun = 1 => Has(ru_run', "pull")
       /\ Count(ru_run', "update") = PulledInRun
       /\ (_rate' # _rate) <=> PulledInRun = 1
       /\ Before(ru_run', "pull", "update") /\ Before(ru_run', "update", "push")
       /\ PushedInRun = PulledInRun /\ Count(ru_run', "push") = PulledInRun
       /\ (~permitted \/ ru_up = <<>>) => _rate' = _rate
  ]_vars

C12_Witness ==
  /\ ru_run = <<"need_update", "pull", "fast_reschedule">>
  /\ Len(ru_out) = 1 /\ ru_up = <<>>
  /\ RateLimiter_allowance(_rate, now) >= 1000

\* ------------------------------------------ RatedUnqueue: packet conservation

\* C13: the packets pushed on output 0, in push order, followed by those still
\* waiting upstream are the packets made upstream, in order: each pulled
\* packet has gone out exactly once, none is dropped, duplicated or held; and
\* a run forwards at most one packet.
C13_Conservation ==
  /\ []([i \in 1..Len(ru_out) |-> ru_out[i].pkt] \o ru_up = [i \in 1..ru_made |-> i])
  /\ [][RatedUnqueue_run_scheduled =>
          /\ PushedInRun \in {0, 1}
          /\ PushedInRun = PulledInRun
          /\ PushedInRun = 1 => ru_out'[Len(ru_out')].pkt = Head(ru_up)]_vars

C13_Witness ==
  /\ Len(ru_out) = 2 /\ ru_out[1].pkt = 1 /\ ru_out[2].pkt = 2
  /\ ru_up = <<3>>
  /\ Has(ru_run, "push")

\* ------------------------------------------------ RIPSend: timer discipline

\* C14: once initialized, RIPSend's timer has exactly one pending deadline
\* whenever the callback is not running; the callback arms it only as its
\* last step, when it is not pending, so every arming takes effect; and the
\* periodic advertisement never stops.
C14_TimerDiscipline ==
  /\ rip_phase = "initialized" =>
       /\ _timer.state = "pending"
       /\ rip_arms # <<>>
       /\ _timer.deadline = rip_arms[Len(rip_arms)].deadline
  /\ \A i \in 1..Len(rip_run) : rip_run[i] = "schedule" => i = Len(rip_run)
  /\ ~rip_crashed

\* ------------------------------------------------- LocFromFile: the cursor

\* C15: after a successful configure the cursor _next is always a valid
\* index, 0 <= _next < number of entries; each call of choose_new_leg moves
\* it on by exactly one, back to 0 exactly when it would reach the number of
\* entries, so with a single entry it stays at 0.
C15_Cursor ==
  /\ [](LocOk => _next >= 0 /\ _next < Len(_deltas))
  /\ [][LocFromFile_choose_new_leg =>
          /\ _next + 1 < Len(_deltas) => _next' = _next + 1
          /\ _next + 1 = Len(_deltas) => _next' = 0
          /\ Len(_deltas) = 1 => _next' = 0 /\ _next = 0]_vars

C15_Witness == LocOk /\ Len(_deltas) = 2 /\ loc_calls = 4 /\ _next = 0

\* --------------------------------------------- LocFromFile: configuration

ThreeNumbers(line) == Len(line) >= 3
AllLinesParse(file) == \A i \in 1..Len(file) : ThreeNumbers(file[i])

\* C16: configure returns a negative value when its arguments do not parse,
\* when the file cannot be opened, when some line does not parse as three
\* numbers, or when the file holds no entries; it succeeds only if every line
\* parsed and there is at least one, and then the trace holds the entries of
\* the file's lines, in file order.
C16_Configure ==
  loc_phase = "configured" =>
    LET file == loc_in.file IN
    /\ ~loc_in.argsOk => loc_res < 0
    /\ ~loc_in.opens => loc_res < 0
    /\ ~AllLinesParse(file) => loc_res < 0
    /\ file = <<>> => loc_res < 0
    /\ loc_res >= 0 =>
         /\ loc_in.argsOk /\ loc_in.opens /\ AllLinesParse(file)
         /\ Len(_deltas) = Len(file) /\ Len(_deltas) >= 1
         /\ \A i \in 1..Len(file) :
              /\ _deltas[i].interval = file[i][1]
              /\ _deltas[i].lat = file[i][2]
              /\ _deltas[i].lon = file[i][3]
    /\ (loc_in.argsOk /\ loc_in.opens /\ AllLinesParse(file) /\ file # <<>>) => loc_res = 0

C16_Witness ==
  /\ loc_phase = "configured" /\ loc_res = 0
  /\ loc_in.file = <<(<<7, 2, 4, 1>>), (<<5, 1, 3>>)>>
  /\ _deltas[1] = [interval |-> 7, lat |-> 2, lon |-> 4]

\* ------------------------------------------------------------ SendPattern

\* The last pull's allocation succeeded.
Allocated == sp_pulls >= 1 /\ sp_run # <<>> /\ sp_run[1] = "make"

\* C17: a pull whose allocation succeeds returns a packet, never none, that
\* it has just made, of exactly _len bytes (1 unless configured otherwise),
\* whose byte at index i is i mod 256; successive such pulls return the same
\* contents whatever happened before.
C17_Pattern ==
  /\ [](sp_phase = "constructed" => _len = 1)
  /\ [](Allocated =>
          /\ ~sp_ret.none
          /\ Len(sp_ret.data) = _len
          /\ \A i \in 0..(_len - 1) : sp_ret.data[i + 1] = i % 256
          /\ Count(sp_run, "make") = 1 /\ Count(sp_run, "write") = _len)
  /\ [][(SendPattern_pull /\ Allocated /\ Allocated') => sp_ret' = sp_ret]_vars

C17_Witness ==
  /\ Allocated /\ sp_pulls = 2 /\ _len = 257
  /\ sp_ret.data[256] = 255 /\ sp_ret.data[257] = 0

\* -------------------------------------------- RatedUnqueue: rate updates

\* The text, blanks at its ends aside, is a non-empty string of decimal digits.
DigitChars == {"0", "1", "2", "3", "4", "5", "6", "7", "8", "9"}
Unblanked(text) ==
  LET inner == {i \in 1..Len(text) : text[i] # " "} IN
  IF inner = {} THEN <<>>
  ELSE SubSeq(text, CHOOSE i \in inner : \A j \in inner : i <= j,
                    CHOOSE i \in inner : \A j \in inner : i >= j)
IsUnsignedText(text) ==
  /\ Unblanked(text) # <<>>
  /\ \A i \in 1..Len(Unblanked(text)) : Unblanked(text)[i] \in DigitChars

\* C18: the rate write handler, given a text that is not an unsigned number,
\* returns an error and leaves the rate as it was; configure returns -1 and
\* leaves the rate as it was when its arguments do not parse; on valid input
\* each sets the rate to the number given and returns 0; neither changes the
\* task's scheduling state.
C18_RateUpdates ==
  /\ [][rate_write_handler =>
          /\ ~IsUnsignedText(ru_written') => ru_hret' < 0 /\ _rate' = _rate
          /\ IsUnsignedText(ru_written') =>
               /\ ru_hret' = 0
               /\ _rate' = [_rate EXCEPT !.rate = DecimalValue(Unblanked(ru_written'))]
          /\ _task' = _task]_vars
  /\ [][RatedUnqueue_configure =>
          /\ ~ru_arg' => ru_conf' = -1 /\ _rate' = _rate
          /\ ru_arg' => /\ ru_conf' = 0
                        /\ \E r \in {0, 2, 10} : _rate' = [_rate EXCEPT !.rate = r]
          /\ _task' = _task]_vars

C18_Witness ==
  /\ ru_phase = "initialized" /\ _task = "scheduled" /\ Len(ru_out) >= 1
  /\ ru_arg
  /\ ru_hcalls = 1 /\ ru_written = <<"1", "x">> /\ ru_hret = -1
  /\ _rate.rate = 10

====
